---- MODULE Spec2Model ----
(***************************************************************************)
(* The Rule-30 coordinator (rule_30/validator/validator.py) and its worker *)
(* (rule_30/miner/compute.py, rule_30/miner/miner.py).                     *)
(*                                                                         *)
(* Words are unsigned integers of W = ByteBits * WordBytes bits.  The      *)
(* program uses 8-bit bytes and 8-byte words (numpy uint64); the model     *)
(* keeps the byte/word structure of the code and scales both factors so    *)
(* that every word value can be enumerated.  Every literal 64, 63, 8 and 7 *)
(* of the source is written in terms of ByteBits and WordBytes.  The       *)
(* scaling keeps what the program does to its first row: the worker        *)
(* answers [1] with the single word [7], and an answer grows by a word     *)
(* exactly when the transformed value reaches the top byte of its last     *)
(* word.                                                                   *)
(***************************************************************************)
EXTENDS Integers, Sequences, FiniteSets, TLC

\* Bits per byte (8 in compute.py:12), scaled.
ByteBits == 1

\* Bytes per uint64 word (8 in compute.py:13), scaled.
WordBytes == 4

\* Width of one word in bits (64 in the program).
W == ByteBits * WordBytes

RECURSIVE Pow2(_)
Pow2(n) == IF n <= 0 THEN 1 ELSE 2 * Pow2(n - 1)

\* Number of values of a word: arithmetic on np.uint64 is modulo WordMod.
WordMod == Pow2(W)

Words == 0 .. (WordMod - 1)

\* ---------------------------------------------------------------------
\* Bitwise operators of Python / numpy on non-negative integers.
\* ---------------------------------------------------------------------
RECURSIVE BitXor(_, _)
BitXor(a, b) ==
    IF a = 0 THEN b
    ELSE IF b = 0 THEN a
    ELSE (((a % 2) + (b % 2)) % 2) + 2 * BitXor(a \div 2, b \div 2)

RECURSIVE BitOr(_, _)
BitOr(a, b) ==
    IF a = 0 THEN b
    ELSE IF b = 0 THEN a
    ELSE (IF a % 2 = 1 \/ b % 2 = 1 THEN 1 ELSE 0) + 2 * BitOr(a \div 2, b \div 2)

RECURSIVE BitAnd(_, _)
BitAnd(a, b) ==
    IF a = 0 \/ b = 0 THEN 0
    ELSE (IF a % 2 = 1 /\ b % 2 = 1 THEN 1 ELSE 0) + 2 * BitAnd(a \div 2, b \div 2)

\* x << k on an unbounded Python int.
Shl(x, k) == x * Pow2(k)

\* x >> k.
Shr(x, k) == x \div Pow2(k)

\* x << k on np.uint64: bits shifted past the top bit are lost.
ShlWord(x, k) == Shl(x, k) % WordMod

\* int.bit_length()
RECURSIVE BitLength(_)
BitLength(x) == IF x = 0 THEN 0 ELSE 1 + BitLength(x \div 2)

\* ---------------------------------------------------------------------
\* Worker: rule_30/miner/compute.py
\* ---------------------------------------------------------------------

\* int.from_bytes(data.tobytes(), "little"): word 1 is the least significant.
RECURSIVE FromWords(_)
FromWords(data) ==
    IF Len(data) = 0 THEN 0
    ELSE Head(data) + WordMod * FromWords(Tail(data))

\* np.frombuffer(x.to_bytes(WordBytes * n, "little"), dtype=np.uint64)
ToWords(x, n) == [i \in 1 .. n |-> Shr(x, W * (i - 1)) % WordMod]

\* Number of bytes of the worker's answer (compute.py:12-13): the bytes
\* needed for the value, then padded by WordBytes - num_bytes % WordBytes,
\* which is a whole word when num_bytes is already a multiple of WordBytes.
NumBytes(t) ==
    LET num_bytes == (BitLength(t) + (ByteBits - 1)) \div ByteBits
    IN  num_bytes + (WordBytes - (num_bytes % WordBytes))

compute_response(data) ==
    LET combined_int    == FromWords(data)
        transformed_int == BitXor(combined_int,
                                  BitOr(Shl(combined_int, 1), Shl(combined_int, 2)))
        num_bytes       == NumBytes(transformed_int)
    IN  ToWords(transformed_int, num_bytes \div WordBytes)

\* ---------------------------------------------------------------------
\* Coordinator, pure parts: rule_30/validator/validator.py
\* ---------------------------------------------------------------------

\* A transform that leaves the word as it is.
rule_30_identity(a) == a

\* rule_30 of normalize_response_data, on np.uint64.
rule_30(a) == BitXor(a, BitOr(ShlWord(a, 1), ShlWord(a, 2)))

\* A reconciliation that forgets to clear the top bit of b.
normalize_pair_keeps_msb(a0, b0) ==
    LET carry == BitAnd(a0, 1)
        a1    == Shr(a0, 1)
        b1    == BitOr(ShlWord(carry, W - 1), b0)
        a2    == rule_30(a1)
        b2    == rule_30(b1)
        msb   == Shr(b2, W - 1)
        a3    == BitOr(ShlWord(a2, 1), msb)
    IN  <<a3, b2>>

\* normalize_pair of normalize_response_data; the result is the pair <<a, b>>.
normalize_pair(a0, b0) ==
    LET carry == BitAnd(a0, 1)
        a1    == Shr(a0, 1)
        b1    == BitOr(ShlWord(carry, W - 1), b0)
        a2    == rule_30(a1)
        b2    == rule_30(b1)
        msb   == Shr(b2, W - 1)
        b3    == BitAnd(b2, Pow2(W - 1) - 1)
        a3    == BitOr(ShlWord(a2, 1), msb)
    IN  <<a3, b3>>

\* chunk_size = ceil(len(self.current_row) // len(self.valid_miners))
chunk_size(L, n) == L \div n

\* The chunks of do_step: the j-th eligible worker gets the next chunk_size
\* words of the row iterator (islice), whatever is left after the last
\* worker is not sent.
Partition(row, n) ==
    LET cs == chunk_size(Len(row), n)
    IN  [j \in 1 .. n |-> SubSeq(row, (j - 1) * cs + 1, j * cs)]

\* s with its last element replaced / its first element replaced.
SetLast(s, v) == [j \in 1 .. Len(s) |-> IF j = Len(s) THEN v ELSE s[j]]
SetFirst(s, v) == [j \in 1 .. Len(s) |-> IF j = 1 THEN v ELSE s[j]]

\* A loop that writes b back at the end of the right chunk.
RECURSIVE NormalizeLoopWrongSlot(_, _)
NormalizeLoopWrongSlot(outputs, i) ==
    IF i >= Len(outputs) THEN outputs
    ELSE LET a  == outputs[i][Len(outputs[i])]
             b  == outputs[i + 1][1]
             ab == normalize_pair(a, b)
             o1 == [j \in 1 .. Len(outputs) |->
                        IF j = i THEN SetLast(outputs[j], ab[1]) ELSE outputs[j]]
             o2 == [j \in 1 .. Len(outputs) |->
                        IF j = i + 1 THEN SetLast(o1[j], ab[2]) ELSE o1[j]]
         IN  NormalizeLoopWrongSlot(o2, i + 1)

\* The loop of normalize_response_data, from boundary i on: the boundary
\* words are read from and written back into the list of chunks in place.
RECURSIVE NormalizeLoop(_, _)
NormalizeLoop(outputs, i) ==
    IF i >= Len(outputs) THEN outputs
    ELSE LET a  == outputs[i][Len(outputs[i])]
             b  == outputs[i + 1][1]
             ab == normalize_pair(a, b)
             o1 == [j \in 1 .. Len(outputs) |->
                        IF j = i THEN SetLast(outputs[j], ab[1]) ELSE outputs[j]]
             o2 == [j \in 1 .. Len(outputs) |->
                        IF j = i + 1 THEN SetFirst(o1[j], ab[2]) ELSE o1[j]]
         IN  NormalizeLoop(o2, i + 1)

\* The value of the Python loop variable i after the loop (0-based):
\* the last boundary index len(outputs) - 2, or the initial 0.
LastLoopIndex(k) == IF k >= 2 THEN k - 2 ELSE 0

\* A reassembly that appends the last chunk whatever the loop index.
normalize_always_last(outputs) ==
    LET k   == Len(outputs)
        out == NormalizeLoop(outputs, 1)
        i   == LastLoopIndex(k)
    IN  out[i + 1] \o out[k]

\* normalize_response_data: the chunk at the final loop index, followed by
\* the last chunk when that index is not 0.
normalize_response_data(outputs) ==
    LET k   == Len(outputs)
        out == NormalizeLoop(outputs, 1)
        i   == LastLoopIndex(k)
    IN  out[i + 1] \o (IF i # 0 THEN out[k] ELSE <<>>)

\* ---------------------------------------------------------------------
\* Coordinator state: class Validator
\* ---------------------------------------------------------------------

\* Largest generation counter from which a generation is still started.
MaxStep == 5

\* The round-trip latencies measured by perf_counter, in abstract units.
InferenceTimes == {1}

\* Identities that may be registered; Self is keypair.ss58_address.  Every
\* registered node is asked for work, the coordinator's own node included.
Hotkeys == {"validator", "m1"}
Self == "validator"

Range(s) == {s[i] : i \in 1 .. Len(s)}

\* metagraph.nodes after sync_nodes(): the registered hotkeys, position
\* i + 1 holding the node whose node_id is i.
Memberships ==
    {m \in UNION {[1 .. k -> Hotkeys] : k \in 0 .. Cardinality(Hotkeys)} :
        \A i, j \in 1 .. Len(m) : i # j => m[i] # m[j]}

\* What asyncio.gather over n requests (make_request) brings back: raised
\* when a request raised (raise_for_status, the transport), which gather
\* passes on, else the list of the n answers.
Gathered(n, answers) ==
    {[raised |-> TRUE, answers |-> <<>>]}
        \cup {[raised |-> FALSE, answers |-> a] : a \in [1 .. n -> answers]}

\* No request gathered.
NoGather == [raised |-> FALSE, answers |-> <<>>]

\* The answers to "current_step": the value 1, or anything else ("0": another
\* value, or a falsy response, which sync replaces by 0).
LiveResponses == {"1", "0"}

\* The answers to "compute": a response carrying the transformed chunk, or
\* a falsy response ("none").
ComputeResponses == {"ok", "none"}

\* The orders in which n concurrent requests can complete: order[k] is the
\* position, in the list of awaitables, of the k-th request to complete.
Orders(n) ==
    {o \in [1 .. n -> 1 .. n] : \A i, j \in 1 .. n : i # j => o[i] # o[j]}

\* The requests as they complete, first to last: each with the position it
\* was dispatched at and the result it brings.
Completions(results, order) ==
    [k \in 1 .. Len(order) |-> [position |-> order[k], result |-> results[order[k]]]]

\* A collector that hands the results over as they complete.
gatherAsCompleted(results, order) ==
    [j \in 1 .. Len(order) |-> Completions(results, order)[j].result]

\* asyncio.gather, do_step lines 323-330: the results in the order of the
\* awaitables passed, whatever the order the requests completed in.
gather(results, order) ==
    LET done == Completions(results, order)
    IN  [j \in 1 .. Len(order) |->
            done[CHOOSE k \in 1 .. Len(order) : done[k].position = j].result]

\* A score: 0.0, or 1 / inference_time as numerator and denominator.
ZeroScore == <<0, 1>>
Score(inference_time) == <<1, inference_time>>

VARIABLES
    pc,             \* where run() is: "start", "loop", "wait", "halted"
    nodes,          \* self.metagraph.nodes
    step,           \* self.step
    current_row,    \* self.current_row
    center_column,  \* self.center_column
    scores,         \* self.scores
    valid_miners,   \* self.valid_miners (0-based uids)
    hotkeys,        \* self.hotkeys
    err,            \* the exception the last step raised, or "none"
    resp,           \* the responses gathered by the latest dispatch
    arrival,        \* the order the latest compute requests completed in
    state_file,     \* the contents of state.npz
    fnPc, fnRow, fnN, fnChunks, fnOutputs, fnNext,
    fnReconciled,   \* the list of chunks after the loop of normalize_response_data
    pairPc,         \* "idle", "input", "once", "twice"
    pairIn,         \* the pair <<a, b>> given to normalize_pair
    pairOnce,       \* normalize_pair of pairIn
    pairTwice       \* normalize_pair of pairOnce

coordVars == <<pc, nodes, step, current_row, center_column, scores,
               valid_miners, hotkeys, err, resp, arrival, state_file>>
fnVars == <<fnPc, fnRow, fnN, fnChunks, fnOutputs, fnNext, fnReconciled>>
pairVars == <<pairPc, pairIn, pairOnce, pairTwice>>
pureVars == <<fnVars, pairVars>>
vars == <<coordVars, pureVars>>

\* state.npz does not exist.
NoFile ==
    [exists |-> FALSE, step |-> 0, current_row |-> <<>>, center_column |-> <<>>,
     valid_miners |-> <<>>, hotkeys |-> <<>>]

\* save_state, lines 118-128: the arrays np.savez writes.
save_state(st, row, cc, vm, hk) ==
    [exists |-> TRUE, step |-> st, current_row |-> row, center_column |-> cc,
     valid_miners |-> vm, hotkeys |-> hk]

\* __init__, lines 70-96, for the membership ns that sync_nodes brings and
\* the state file f: the fields of the new object, load_state (lines
\* 130-144) overwriting five of them when the file exists.
Construct(ns, f) ==
    [hotkeys       |-> IF f.exists THEN f.hotkeys ELSE ns,
     scores        |-> [i \in 1 .. Len(ns) |-> <<0, 1>>],
     valid_miners  |-> IF f.exists THEN f.valid_miners ELSE <<>>,
     step          |-> IF f.exists THEN f.step ELSE 1,
     current_row   |-> IF f.exists THEN f.current_row ELSE <<1>>,
     center_column |-> IF f.exists THEN f.center_column ELSE <<1>>]

\* check_registered: TRUE when UnrecoverableError is raised.
check_registered(ns) == Self \notin Range(ns)

\* sync, lines 160-165: the scores resized when the number of nodes changed.
ResizeScores(sc, hk, ns) ==
    IF Len(hk) # Len(ns)
    THEN LET length == Len(hk)
             kept   == SubSeq(sc, 1, IF length < Len(sc) THEN length ELSE Len(sc))
             rest   == IF Len(ns) > length THEN Len(ns) - length ELSE 0
         IN  kept \o [i \in 1 .. rest |-> ZeroScore]
    ELSE sc

\* sync, lines 169-171: the score of every hotkey that left is zeroed.
ZeroDeparted(sc, hk, ns) ==
    [i \in 1 .. Len(sc) |->
        IF i <= Len(hk) /\ hk[i] \notin Range(ns) THEN ZeroScore ELSE sc[i]]

\* sync, lines 169-171: scores[uid] is out of range for a departed hotkey.
DepartedOutOfRange(sc, hk, ns) ==
    \E i \in 1 .. Len(hk) : hk[i] \notin Range(ns) /\ i > Len(sc)

\* np.where(current_steps == 1): the 0-based positions answering 1, ascending.
RECURSIVE WhereOne(_, _)
WhereOne(live, i) ==
    IF i > Len(live) THEN <<>>
    ELSE (IF live[i] = "1" THEN <<i - 1>> ELSE <<>>) \o WhereOne(live, i + 1)

\* sync: the exception it raises ("none" if it returns) and the fields it
\* leaves, for the membership ns and the liveness answers live.
sync(ns, live) ==
    IF check_registered(ns)
    THEN [err |-> "UnrecoverableError", valid_miners |-> valid_miners,
          scores |-> scores, hotkeys |-> hotkeys]
    ELSE LET resized == ResizeScores(scores, hotkeys, ns)
         IN  IF DepartedOutOfRange(resized, hotkeys, ns)
             THEN [err |-> "IndexError", valid_miners |-> <<>>,
                   scores |-> ZeroDeparted(resized, hotkeys, ns), hotkeys |-> hotkeys]
             ELSE IF live.raised
             THEN [err |-> "RequestError", valid_miners |-> <<>>,
                   scores |-> ZeroDeparted(resized, hotkeys, ns), hotkeys |-> ns]
             ELSE [err |-> "none", valid_miners |-> WhereOne(live.answers, 1),
                   scores |-> ZeroDeparted(resized, hotkeys, ns), hotkeys |-> ns]

\* A handler whose bare except comes first: every exception but the
\* interrupt is swallowed.
HandleSwallowAll(e) ==
    IF e = "KeyboardInterrupt" THEN "halted" ELSE "loop"

\* run, lines 366-372: where the loop goes after do_step raised e.
Handle(e) ==
    IF e \in {"UnrecoverableError", "KeyboardInterrupt"} THEN "halted" ELSE "loop"

\* A waiting loop that is never entered.
AwaitWorkersNever(vm) == Len(vm) < 0

\* do_step, line 303: the condition of the waiting loop.
AwaitWorkers(vm) == Len(vm) = 0

Init ==
    /\ pc = "start"
    /\ nodes \in Memberships
    /\ hotkeys = nodes
    /\ scores = [i \in 1 .. Len(nodes) |-> ZeroScore]
    /\ valid_miners = <<>>
    /\ step = 1
    /\ current_row = <<1>>
    /\ center_column = <<1>>
    /\ err = "none"
    /\ resp = NoGather
    /\ arrival = <<>>
    /\ state_file = NoFile
    /\ fnPc = "idle"
    /\ fnRow = <<>>
    /\ fnN = 0
    /\ fnChunks = <<>>
    /\ fnOutputs = <<>>
    /\ fnNext = <<>>
    /\ fnReconciled = <<>>
    /\ pairPc = "idle"
    /\ pairIn = <<>>
    /\ pairOnce = <<>>
    /\ pairTwice = <<>>

\* The assignments of one call of sync with result r.
ApplySync(ns, r) ==
    /\ nodes' = ns
    /\ valid_miners' = r.valid_miners
    /\ scores' = r.scores
    /\ hotkeys' = r.hotkeys
    /\ err' = r.err
    /\ resp' = NoGather
    /\ arrival' = <<>>
    /\ UNCHANGED <<step, current_row, center_column, state_file>>

\* run, lines 362-364: the first sync and the first telemetry run, outside
\* the try of the loop: an exception here ends run().
RunStart ==
    /\ pc = "start"
    /\ \E ns \in Memberships : \E live \in Gathered(Len(ns), LiveResponses) :
       \E wandbOk \in BOOLEAN :
         LET r == sync(ns, live)
             e == IF r.err # "none" THEN r.err
                  ELSE IF wandbOk THEN "none" ELSE "WandbError"
         IN  /\ ApplySync(ns, [r EXCEPT !.err = e])
             /\ pc' = IF e = "none" THEN "loop" ELSE "halted"
    /\ UNCHANGED pureVars

\* do_step, lines 292-301: sync when an epoch has elapsed since the last one.
EpochSync ==
    /\ pc = "loop"
    /\ step < MaxStep
    /\ \E due \in BOOLEAN :
         IF due
         THEN \E ns \in Memberships : \E live \in Gathered(Len(ns), LiveResponses) :
                LET r == sync(ns, live)
                IN  /\ ApplySync(ns, r)
                    /\ pc' = IF r.err = "none" THEN "wait" ELSE Handle(r.err)
         ELSE /\ pc' = "wait"
              /\ err' = "none"
              /\ resp' = NoGather
              /\ arrival' = <<>>
              /\ UNCHANGED <<nodes, valid_miners, scores, hotkeys,
                             step, current_row, center_column, state_file>>
    /\ UNCHANGED pureVars

\* do_step, lines 303-310: no eligible worker: sleep, then sync again.
WaitResync ==
    /\ pc = "wait"
    /\ AwaitWorkers(valid_miners)
    /\ \E ns \in Memberships : \E live \in Gathered(Len(ns), LiveResponses) :
         LET r == sync(ns, live)
         IN  /\ ApplySync(ns, r)
             /\ pc' = IF r.err = "none" THEN "wait" ELSE Handle(r.err)
    /\ UNCHANGED pureVars

\* do_step, lines 337-341: self.scores[uid] = ... raises IndexError for a
\* uid the list of scores has no entry for.
ScoreOutOfRange(sc, vm) == \E j \in 1 .. Len(vm) : vm[j] + 1 > Len(sc)

\* do_step, lines 337-341: the scores after the responses rs (one per
\* eligible worker, in the order of valid_miners) with latencies lat; the
\* loop ends at the first uid that is out of range.
RECURSIVE ScoreResponses(_, _, _, _, _)
ScoreResponses(sc, vm, rs, lat, j) ==
    IF j > Len(vm) \/ vm[j] + 1 > Len(sc) THEN sc
    ELSE ScoreResponses(
            [sc EXCEPT ![vm[j] + 1] =
                IF rs[j] = "none" THEN ZeroScore ELSE Score(lat[j])],
            vm, rs, lat, j + 1)

\* A missing response that is passed over instead of raising.
MissingResponseIgnored(answers) == FALSE

\* do_step, lines 343-346: response.parts of a response that is None
\* raises AttributeError.
MissingResponse(answers) == \E j \in 1 .. Len(answers) : answers[j] = "none"

\* An update that stores the masked row word instead of OR-ing it in.
UpdateCenterAssign(cc, row, g) ==
    LET bit_index        == g % W
        current_row_part == row[(g \div W) + 1]
    IN  SetLast(cc, ShlWord(Shr(current_row_part, bit_index), bit_index))

\* do_step, lines 350-353: the center column after generation g on row.
UpdateCenter(cc, row, g) ==
    LET bit_index        == g % W
        current_row_part == row[(g \div W) + 1]
    IN  SetLast(cc, BitOr(cc[Len(cc)],
                          ShlWord(Shr(current_row_part, bit_index), bit_index)))

\* do_step, lines 312-359, for the answers rs of the workers (rs.answers[j]
\* is what the worker dispatched at position j answers), completing in the
\* order given: the exception raised ("none" if the generation completes)
\* and the fields left behind.
Generation(rs, order, lat, wandbOk) ==
    LET n == Len(valid_miners)
        same == [err |-> "none", scores |-> scores, row |-> current_row,
                 cc |-> center_column, step |-> step, file |-> state_file]
    IN  IF n = 0 THEN [same EXCEPT !.err = "ZeroDivisionError"]
        ELSE IF rs.raised
        THEN [same EXCEPT !.err = "RequestError"]
        ELSE LET chunks    == Partition(current_row, n)
                 results   == [j \in 1 .. n |->
                                 [answer |-> rs.answers[j],
                                  parts  |-> compute_response(chunks[j])]]
                 responses == gather(results, order)
                 answers   == [j \in 1 .. n |-> responses[j].answer]
                 sc        == ScoreResponses(scores, valid_miners, answers, lat, 1)
             IN  IF ScoreOutOfRange(scores, valid_miners)
                 THEN [same EXCEPT !.err = "IndexError", !.scores = sc]
                 ELSE IF MissingResponse(answers)
                 THEN [same EXCEPT !.err = "AttributeError", !.scores = sc]
                 ELSE LET data == [j \in 1 .. n |-> responses[j].parts]
                          row  == normalize_response_data(data)
                      IN  IF (step \div W) >= Len(row)
                          THEN [same EXCEPT !.err = "IndexError",
                                            !.scores = sc, !.row = row]
                          ELSE LET cc == UpdateCenter(center_column, row, step)
                               IN  [err    |-> IF wandbOk THEN "none" ELSE "WandbError",
                                    scores |-> sc,
                                    row    |-> row,
                                    cc     |-> cc,
                                    step   |-> step + 1,
                                    file   |-> save_state(step + 1, row, cc,
                                                          valid_miners, hotkeys)]

\* do_step, lines 312-359: partition, dispatch, collect, score, reconcile,
\* update the center column and the counter, persist and log.
DoGeneration ==
    /\ pc = "wait"
    /\ ~AwaitWorkers(valid_miners)
    /\ \E rs \in Gathered(Len(valid_miners), ComputeResponses) :
       \E order \in Orders(Len(rs.answers)) :
       \E lat \in [1 .. Len(valid_miners) -> InferenceTimes] :
       \E wandbOk \in BOOLEAN :
         LET g == Generation(rs, order, lat, wandbOk)
         IN  /\ err' = g.err
             /\ scores' = g.scores
             /\ current_row' = g.row
             /\ center_column' = g.cc
             /\ step' = g.step
             /\ state_file' = g.file
             /\ resp' = rs
             /\ arrival' = order
             /\ pc' = Handle(g.err)
    /\ UNCHANGED <<nodes, valid_miners, hotkeys>>
    /\ UNCHANGED pureVars

\* KeyboardInterrupt delivered while do_step runs: run re-raises it.
Interrupt ==
    /\ pc \in {"loop", "wait"}
    /\ pc' = Handle("KeyboardInterrupt")
    /\ err' = "KeyboardInterrupt"
    /\ UNCHANGED <<nodes, step, current_row, center_column, scores,
                   valid_miners, hotkeys, resp, arrival, state_file>>
    /\ UNCHANGED pureVars

\* The process is started again after run() has begun (it ended, or was
\* killed): __init__ builds a new object from the metagraph and state.npz.
Restart ==
    /\ pc \in {"loop", "wait", "halted"}
    /\ \E ns \in Memberships :
         LET v == Construct(ns, state_file)
         IN  /\ nodes' = ns
             /\ hotkeys' = v.hotkeys
             /\ scores' = v.scores
             /\ valid_miners' = v.valid_miners
             /\ step' = v.step
             /\ current_row' = v.current_row
             /\ center_column' = v.center_column
    /\ pc' = "start"
    /\ err' = "none"
    /\ resp' = NoGather
    /\ arrival' = <<>>
    /\ UNCHANGED state_file
    /\ UNCHANGED pureVars

Next ==
    \/ RunStart
    \/ EpochSync
    \/ WaitResync
    \/ DoGeneration
    \/ Interrupt
    \/ Restart

Spec == Init /\ [][Next]_vars

\* ---------------------------------------------------------------------
\* The pure pipeline of one generation on arbitrary rows: the partition of
\* do_step, compute_response on every chunk, normalize_response_data.
\* ---------------------------------------------------------------------

\* Longest row, in words, and largest number of eligible workers drawn.
MaxRowLen == 3
MaxWorkers == 3

Rows == UNION {[1 .. L -> Words] : L \in 1 .. MaxRowLen}

InitFn ==
    /\ pc = "start"
    /\ nodes = <<>>
    /\ hotkeys = <<>>
    /\ scores = <<>>
    /\ valid_miners = <<>>
    /\ step = 1
    /\ current_row = <<1>>
    /\ center_column = <<1>>
    /\ err = "none"
    /\ resp = NoGather
    /\ arrival = <<>>
    /\ state_file = NoFile
    /\ fnPc = "input"
    /\ fnRow \in Rows
    /\ fnN = 0
    /\ fnChunks = <<>>
    /\ fnOutputs = <<>>
    /\ fnNext = <<>>
    /\ fnReconciled = <<>>
    /\ pairPc = "idle"
    /\ pairIn = <<>>
    /\ pairOnce = <<>>
    /\ pairTwice = <<>>

\* do_step, lines 312-348, with n eligible workers that all respond.
FnGeneration ==
    /\ fnPc = "input"
    /\ \E n \in 1 .. MaxWorkers :
         LET chunks == Partition(fnRow, n)
             data   == [j \in 1 .. n |-> compute_response(chunks[j])]
         IN  /\ fnN' = n
             /\ fnChunks' = chunks
             /\ fnOutputs' = data
             /\ fnReconciled' = NormalizeLoop(data, 1)
             /\ fnNext' = normalize_response_data(data)
    /\ fnPc' = "done"
    /\ UNCHANGED fnRow
    /\ UNCHANGED pairVars
    /\ UNCHANGED coordVars

NextFn == FnGeneration

SpecFn == InitFn /\ [][NextFn]_vars

\* ---------------------------------------------------------------------
\* normalize_pair on arbitrary pairs of words, applied once and applied
\* again to its own result.
\* ---------------------------------------------------------------------

InitPair ==
    /\ pc = "start"
    /\ nodes = <<>>
    /\ hotkeys = <<>>
    /\ scores = <<>>
    /\ valid_miners = <<>>
    /\ step = 1
    /\ current_row = <<1>>
    /\ center_column = <<1>>
    /\ err = "none"
    /\ resp = NoGather
    /\ arrival = <<>>
    /\ state_file = NoFile
    /\ fnPc = "idle"
    /\ fnRow = <<>>
    /\ fnN = 0
    /\ fnChunks = <<>>
    /\ fnOutputs = <<>>
    /\ fnNext = <<>>
    /\ fnReconciled = <<>>
    /\ pairPc = "input"
    /\ pairIn \in Words \X Words
    /\ pairOnce = <<>>
    /\ pairTwice = <<>>

\* normalize_pair(a, b), lines 378-393.
PairOnce ==
    /\ pairPc = "input"
    /\ pairOnce' = normalize_pair(pairIn[1], pairIn[2])
    /\ pairPc' = "once"
    /\ UNCHANGED <<pairIn, pairTwice>>
    /\ UNCHANGED <<coordVars, fnVars>>

\* normalize_pair applied to the pair it returned.
PairTwice ==
    /\ pairPc = "once"
    /\ pairTwice' = normalize_pair(pairOnce[1], pairOnce[2])
    /\ pairPc' = "twice"
    /\ UNCHANGED <<pairIn, pairOnce>>
    /\ UNCHANGED <<coordVars, fnVars>>

NextPair ==
    \/ PairOnce
    \/ PairTwice

SpecPair == InitPair /\ [][NextPair]_vars

\* ---------------------------------------------------------------------
\* Reference definitions used by the properties.
\* ---------------------------------------------------------------------

\* The chunks of a list concatenated in order.
RECURSIVE Flatten(_)
Flatten(cs) == IF Len(cs) = 0 THEN <<>> ELSE Head(cs) \o Flatten(Tail(cs))

\* WordTransform of section 4.1 on a value of the given width in bits:
\* x XOR ((x << 1) | (x << 2)) modulo 2^width.
WordTransform(x, width) ==
    BitXor(x, BitOr(Shl(x, 1), Shl(x, 2))) % Pow2(width)

\* WordTransform applied to a whole sequence of words as one bit-vector.
TransformWords(ws) ==
    ToWords(WordTransform(FromWords(ws), W * Len(ws)), Len(ws))

\* Bit p (0 = least significant) of x.
BitAt(x, p) == Shr(x, p) % 2

\* Two word sequences agree except possibly in the 2 bits nearest each end.
AgreeInside(xs, ys) ==
    /\ Len(xs) = Len(ys)
    /\ \A p \in 2 .. (W * Len(xs) - 3) :
         BitAt(FromWords(xs), p) = BitAt(FromWords(ys), p)

\* ---------------------------------------------------------------------
\* Properties
\* ---------------------------------------------------------------------

\* C1: a row split into k >= 2 chunks, each transformed by a worker and the
\* results reconciled, equals WordTransform of the whole row as one
\* bit-vector except possibly in the 2 bits nearest the outer edges.
C1_SplitEqualsWhole ==
    (fnPc = "done" /\ fnN >= 2) => AgreeInside(fnNext, TransformWords(fnRow))

\* C2: the partition is lossless and order-preserving: the first n-1
\* workers get chunkSize = floor(L / n) consecutive words each, the last one
\* all remaining words, and the chunks concatenated give back the row.
C2_PartitionLossless ==
    fnPc = "done" =>
        LET L  == Len(fnRow)
            cs == L \div fnN
        IN  /\ \A j \in 1 .. (fnN - 1) : Len(fnChunks[j]) = cs
            /\ Len(fnChunks[fnN]) = L - (fnN - 1) * cs
            /\ Len(fnChunks[fnN]) >= cs
            /\ Flatten(fnChunks) = fnRow

\* C3: the next row is the concatenation, in assignment order, of all the
\* k >= 1 returned chunks with their boundary words reconciled; for two
\* one-word chunks it is the pair given by the 7-step procedure.
C3_NextRowIsAllChunks ==
    fnPc = "done" =>
        /\ fnNext = Flatten(NormalizeLoop(fnOutputs, 1))
        /\ (fnN = 2 /\ Len(fnOutputs[1]) = 1 /\ Len(fnOutputs[2]) = 1) =>
              fnNext = normalize_pair(fnOutputs[1][1], fnOutputs[2][1])

\* C10: for a chunk of m >= 1 words the worker returns exactly m words:
\* x XOR ((x << 1) | (x << 2)) of the chunk's bit pattern modulo 2^(m*W).
C10_WorkerKeepsLength ==
    fnPc = "done" =>
        \A j \in 1 .. fnN :
            Len(fnChunks[j]) >= 1 =>
                /\ Len(fnOutputs[j]) = Len(fnChunks[j])
                /\ fnOutputs[j] = TransformWords(fnChunks[j])

\* A step that starts the process again (a new Validator object).
RestartStep == pc # "start" /\ pc' = "start"

\* A step of do_step that partitions and dispatches (lines 312-359).
GenerationStep ==
    /\ pc = "wait"
    /\ Len(valid_miners) > 0
    /\ err' # "KeyboardInterrupt"
    /\ ~RestartStep

\* The 0-based uids of the eligible workers.
Eligible == Range(valid_miners)

\* In the latest dispatch worker j of the eligible list came back without a
\* response / with one.
Failed(r, j) == ~r.raised /\ j <= Len(r.answers) /\ r.answers[j] = "none"
Responded(r, j) == ~r.raised /\ j <= Len(r.answers) /\ r.answers[j] = "ok"

\* No dispatched worker responded: the gather raised, or every response is
\* missing.
NoneResponded(r) ==
    \/ r.raised
    \/ Len(r.answers) > 0 /\ \A j \in 1 .. Len(r.answers) : r.answers[j] = "none"

\* C4: when at least one dispatched worker responds and another one fails,
\* the failed worker's score is set to 0 and the generation still completes:
\* the row is replaced and the generation counter is incremented.
C4_PartialFailureCompletes ==
    [][(/\ GenerationStep
        /\ \E j \in 1 .. Len(valid_miners) : Responded(resp', j)
        /\ \E j \in 1 .. Len(valid_miners) : Failed(resp', j))
       => (/\ \A j \in 1 .. Len(valid_miners) :
                Failed(resp', j) => scores'[valid_miners[j] + 1] = ZeroScore
           /\ step' = step + 1
           /\ pc' = "loop")]_vars

C6_NeverDispatchWithoutWorkers ==
    [][(Len(valid_miners) = 0 /\ ~RestartStep)
       => (/\ UNCHANGED <<step, current_row, center_column>>
           /\ (pc = "wait" /\ err' # "KeyboardInterrupt")
                => (/\ resp' = NoGather
                    /\ err' \in {"none", "UnrecoverableError", "RequestError", "IndexError"}
                    /\ (err' = "none" => pc' = "wait")))]_vars

\* C6 witness: after a completed generation the eligible list is empty and
\* do_step waits.
C6_Witness ==
    /\ pc = "wait"
    /\ Len(valid_miners) = 0
    /\ step > 1

\* C7: between operations a worker's score is zero whenever it failed to
\* respond in the latest generation or is not in the eligible list.
C7_ScoreZeroUnlessEligible ==
    pc = "loop" =>
        \A i \in 1 .. Len(scores) :
            (\/ (i - 1) \notin Eligible
             \/ \E j \in 1 .. Len(valid_miners) :
                    valid_miners[j] = i - 1 /\ Failed(resp, j))
            => scores[i] = ZeroScore

\* C8: a generation that ends in an error raised before persisting leaves
\* row, center column, generation counter and scores exactly as they were.
C8_ErrorLeavesStateUntouched ==
    [][(GenerationStep /\ err' \in {"RequestError", "AttributeError", "IndexError"})
       => UNCHANGED <<current_row, center_column, step, scores>>]_vars

\* C9: an error raised during a generation other than the
\* identity-not-registered error is swallowed and the loop goes on to the
\* next generation; the identity-not-registered error is raised only when
\* the coordinator's own hotkey is missing from the membership, is never
\* swallowed and ends the loop for good (run() never resumes; only a new
\* process starts another loop).
C9_OnlyUnregisteredIsFatal ==
    [][/\ (pc \in {"loop", "wait"} /\ err' \notin {"none", "KeyboardInterrupt"})
            => /\ pc' = IF err' = "UnrecoverableError" THEN "halted" ELSE "loop"
               /\ (err' = "UnrecoverableError" <=> Self \notin Range(nodes'))
       /\ ((pc = "halted" /\ ~RestartStep) => pc' = "halted")]_vars

\* C9 witness: an error raised after reconciliation was swallowed and the
\* loop is about to start another generation.
C9_Witness ==
    /\ pc = "loop"
    /\ err = "IndexError"
    /\ Len(resp.answers) > 0
    /\ Len(current_row) <= step \div W

\* save_state has just run: the step before was a generation that completed
\* (its telemetry call may have failed after the save).
JustSaved ==
    /\ pc = "loop"
    /\ Len(resp.answers) > 0
    /\ err \in {"none", "WandbError"}

\* C11: persisting and restoring is a round trip: when the process is
\* started again right after save_state ran, the generation counter, row,
\* center column, eligible-worker list and per-worker scores of the new
\* object all equal the values they had when save_state ran.
C11_SaveRestoreRoundTrip ==
    [][(JustSaved /\ RestartStep)
       => (/\ state_file = save_state(step, current_row, center_column,
                                      valid_miners, hotkeys)
           /\ step' = step
           /\ current_row' = current_row
           /\ center_column' = center_column
           /\ valid_miners' = valid_miners
           /\ scores' = scores)]_vars

\* C12: the next row of a generation does not depend on the order in which
\* the responses arrive: whatever the order of completion, the answer of the
\* worker at position j of the eligible list is paired with that worker (its
\* score follows its own answer) and the row is reassembled from the answers
\* to the chunks in the order of dispatch.
C12_ArrivalOrderIrrelevant ==
    [][(GenerationStep /\ ~resp'.raised /\ ~ScoreOutOfRange(scores, valid_miners))
       => LET n      == Len(valid_miners)
              chunks == Partition(current_row, n)
          IN  /\ \A j \in 1 .. n :
                    scores'[valid_miners[j] + 1] \in
                        (IF resp'.answers[j] = "none" THEN {ZeroScore}
                         ELSE {Score(t) : t \in InferenceTimes})
              /\ (\A j \in 1 .. n : resp'.answers[j] = "ok")
                    => current_row' = normalize_response_data(
                            [j \in 1 .. n |-> compute_response(chunks[j])])]_vars

\* C12 witness: a generation of two workers completed whose second response
\* arrived before the first one, the next row not being all zero.
C12_Witness ==
    /\ pc = "loop"
    /\ err = "none"
    /\ arrival = <<2, 1>>
    /\ Len(current_row) >= 2
    /\ current_row # <<0, 0>>

\* C13: normalize_pair is not idempotent: there are pairs (a, b) for which
\* applying it to its own result gives another pair; (7, 0), the words two
\* workers return for the row [1, 0], is one of them.
C13_NotIdempotent ==
    /\ \E a, b \in Words :
          LET once == normalize_pair(a, b)
          IN  normalize_pair(once[1], once[2]) # once
    /\ (pairPc = "twice" /\ pairIn = <<7, 0>>) => pairTwice # pairOnce

\* C13 witness: normalize_pair was applied twice to (7, 0) and the second
\* result differs from the first.
C13_Witness ==
    /\ pairPc = "twice"
    /\ pairIn = <<7, 0>>
    /\ pairTwice # pairOnce

\* Section 4.3, steps 1-6, in arithmetic on naturals: the pair
\* <<aFinal, bFinal>> for the boundary words a and b.
ReconciledPair(a, b) ==
    LET half   == WordMod \div 2
        carry  == a % 2
        aShift == a \div 2
        bCarry == IF carry = 1 /\ b < half THEN b + half ELSE b
        aT     == WordTransform(aShift, W)
        bT     == WordTransform(bCarry, W)
        msb    == bT \div half
        bFinal == bT % half
        aFinal == ((2 * aT) % WordMod) + msb
    IN  <<aFinal, bFinal>>

\* C16: for every pair of words (a, b), normalize_pair returns
\* (aFinal, bFinal) of the 7-step procedure, modulo 2^W: bFinal is
\* WordTransform(((a & 1) << (W-1)) | b) with its top bit cleared, aFinal is
\* (WordTransform(a >> 1) << 1) | msb with msb the top bit cleared from it;
\* the top bit of bFinal is 0 and both results are words.
C16_PairFollowsProcedure ==
    pairPc # "input"
        => /\ pairOnce = ReconciledPair(pairIn[1], pairIn[2])
           /\ pairOnce[2] < WordMod \div 2
           /\ pairOnce[1] \in Words
           /\ pairOnce[2] \in Words

\* C16 witness: normalize_pair was applied to a pair whose left word carries
\* its low bit over and whose right word comes back with its top bit set
\* before it is cleared into aFinal.
C16_Witness ==
    /\ pairPc = "once"
    /\ pairIn[1] % 2 = 1
    /\ pairIn[2] > 0
    /\ pairOnce[1] % 2 = 1

\* C14: with exactly one eligible worker the whole row is sent as one chunk,
\* no reconciliation is performed and the next row is the chunk the worker
\* returned, word for word; for the row [1] the next row is
\* [WordTransform(1)].
C14_SingleWorkerPassThrough ==
    (fnPc = "done" /\ fnN = 1)
        => /\ fnChunks = <<fnRow>>
           /\ fnReconciled = fnOutputs
           /\ fnNext = fnOutputs[1]
           /\ (fnRow = <<1>> => fnNext = <<WordTransform(1, W)>>)

\* C14 witness: the generation of the row [1] by a single worker.
C14_Witness ==
    /\ fnPc = "done"
    /\ fnN = 1
    /\ fnRow = <<1>>
    /\ fnNext = <<7>>

\* C15: a telemetry failure (creating a run, logging a snapshot) never
\* affects the evolution loop: it never ends run(), never keeps the loop
\* from being entered, and a generation whose telemetry call fails keeps
\* what it computed: the counter is incremented and the row, center column
\* and counter are the ones save_state persisted.
C15_TelemetryFailureHarmless ==
    [][err' = "WandbError"
       => (/\ pc' = "loop"
           /\ pc = "wait"
                => (/\ step' = step + 1
                    /\ state_file' = save_state(step', current_row', center_column',
                                                valid_miners', hotkeys')))]_vars

\* C17: reconciliation is applied independently to every adjacent pair of
\* chunks: the reconciled words of boundary i are normalize_pair of the last
\* word of chunk i and the first word of chunk i + 1 as the workers returned
\* them, whatever happened at another boundary; a chunk of a single word,
\* right word of one boundary and left word of the next, ends as the left
\* result of the later boundary.
C17_BoundariesIndependent ==
    fnPc = "done"
        => \A i \in 1 .. (fnN - 1) :
              LET left  == fnOutputs[i]
                  right == fnOutputs[i + 1]
                  ab    == normalize_pair(left[Len(left)], right[1])
              IN  /\ fnReconciled[i][Len(left)] = ab[1]
                  /\ (Len(right) > 1 \/ i + 1 = fnN)
                        => fnReconciled[i + 1][1] = ab[2]

\* Word p of chunk c of a list of k chunks is a boundary word: the last word
\* of a chunk that has a right neighbour, or the first word of a chunk that
\* has a left neighbour.
BoundaryWord(cs, c, p) ==
    \/ (p = Len(cs[c]) /\ c < Len(cs))
    \/ (p = 1 /\ c > 1)

\* C18: reconciliation changes boundary words only: every other word of
\* every chunk keeps the value the worker returned, and no chunk changes
\* length.
C18_OnlyBoundaryWordsChange ==
    fnPc = "done"
        => /\ Len(fnReconciled) = Len(fnOutputs)
           /\ \A c \in 1 .. Len(fnOutputs) :
                /\ Len(fnReconciled[c]) = Len(fnOutputs[c])
                /\ \A p \in 1 .. Len(fnOutputs[c]) :
                      ~BoundaryWord(fnOutputs, c, p)
                          => fnReconciled[c][p] = fnOutputs[c][p]

\* C18 witness: three chunks were reconciled, the boundary words changed and
\* the last chunk has a second, non-zero word that is not a boundary word.
C18_Witness ==
    /\ fnPc = "done"
    /\ fnN = 3
    /\ Len(fnOutputs[3]) = 2
    /\ fnOutputs[3][2] # 0
    /\ fnReconciled[3][1] # fnOutputs[3][1]
    /\ fnReconciled[1] # fnOutputs[1]

\* A generation that ran to the end of do_step: the counter was incremented.
CompletedGeneration == GenerationStep /\ step' = step + 1

\* x with its low m bits cleared.
MaskLow(x, m) == x - (x % Pow2(m))

\* C19: the center column is only ever OR-ed into: its length never changes,
\* a bit once set stays set, and a completed generation g changes only its
\* last word, OR-ing into it the word at index floor(g / W) of the
\* post-reconciliation row with its low (g mod W) bits cleared; no other
\* step changes it.
C19_CenterColumnOnlyOred ==
    [][/\ Len(center_column') = Len(center_column)
       /\ \A i \in 1 .. Len(center_column) : \A p \in 0 .. (W - 1) :
             BitAt(center_column[i], p) = 1 => BitAt(center_column'[i], p) = 1
       /\ IF CompletedGeneration
          THEN LET last   == Len(center_column)
                   masked == MaskLow(current_row'[(step \div W) + 1], step % W)
               IN  /\ \A i \in 1 .. (last - 1) : center_column'[i] = center_column[i]
                   /\ center_column'[last] \in Words
                   /\ \A p \in 0 .. (W - 1) :
                         BitAt(center_column'[last], p) = 1
                             <=> (\/ BitAt(center_column[last], p) = 1
                                  \/ BitAt(masked, p) = 1)
          ELSE center_column' = center_column]_vars

\* C19 witness: generation 1 completed on the row [7]: bits 1 and 2 of the
\* row word were OR-ed into the center column, bit 0 was masked off.
C19_Witness ==
    /\ pc = "loop"
    /\ step = 2
    /\ current_row = <<7>>
    /\ center_column = <<7>>

\* C20: in every generation that reaches the center-column update (every
\* worker answered and was scored), the post-reconciliation row has a word
\* at index floor(g / W), whatever the number of eligible workers and the
\* generations completed before, starting from the row [1] and g = 1.
C20_RowCoversCenterIndex ==
    [][(/\ GenerationStep
        /\ ~resp'.raised
        /\ ~ScoreOutOfRange(scores, valid_miners)
        /\ ~MissingResponse(resp'.answers))
       => (/\ Len(current_row') > step \div W
           /\ err' # "IndexError")]_vars

====
